---- MODULE Spec2Model ----
(***************************************************************************)
(* Model of src/collada-convert.js: the command-line option check, the     *)
(* ColladaConvert constructor (configuration), ColladaConvert.writeData    *)
(* (the binary container writer) and ColladaLighting (light extraction).   *)
(*                                                                         *)
(* Text is a sequence of code points, a buffer is a sequence of bytes.     *)
(* An optional value (JavaScript undefined or a value) is <<>> or <<v>>.   *)
(* The geometry, animation and hierarchy producers live in ./includes and  *)
(* are modelled by their contract only.  config.includeAttribs and the     *)
(* includeNormals / includeUV overrides only reach the geometry producer   *)
(* and are left out.                                                       *)
(***************************************************************************)
EXTENDS Integers, Sequences, FiniteSets, TLC

\* ------------------------------------------------------------------ bounds
MaxArgs == 2
MaxLights == 2
MaxSegs == 2

\* ------------------------------------------------------- program constants
SKIP_BINARY == "-skip-binary"
SUB_ANIM == "-sub-anim"
PARAMS == {SKIP_BINARY, SUB_ANIM}

\* Names every object inherits from Object.prototype: PARAMS[key] is truthy
\* for them although they are no keys of PARAMS.
ObjectPrototypeKeys ==
  {"constructor", "toString", "valueOf", "hasOwnProperty", "isPrototypeOf",
   "propertyIsEnumerable", "toLocaleString", "__proto__"}

\* !PARAMS[key] of line 39, negated: the property lookup walks the prototype chain.
ParamsLookup(key) == key \in PARAMS \/ key \in ObjectPrototypeKeys

None == <<>>
Some(v) == <<v>>
IsSome(o) == Len(o) > 0

\* -------------------------------------------------------------------- text
RECURSIVE Concat(_)
Concat(ss) == IF Len(ss) = 0 THEN <<>> ELSE Head(ss) \o Concat(Tail(ss))

RECURSIVE Join(_, _)
Join(ss, sep) ==
  IF Len(ss) = 0 THEN <<>>
  ELSE IF Len(ss) = 1 THEN ss[1]
  ELSE ss[1] \o sep \o Join(Tail(ss), sep)

Quote(s) == <<34>> \o s \o <<34>>

IsDigit(c) == c >= 48 /\ c <= 57

\* String.prototype.split(' ')
RECURSIVE Split(_)
Split(s) ==
  IF \A i \in 1..Len(s) : s[i] # 32 THEN <<s>>
  ELSE LET k == CHOOSE i \in 1..Len(s) : s[i] = 32 /\ \A j \in 1..(i - 1) : s[j] # 32
       IN <<SubSeq(s, 1, k - 1)>> \o Split(SubSeq(s, k + 1, Len(s)))

\* parseInt on an unsigned decimal numeral: the leading digits, the rest ignored.
RECURSIVE ParseDigits(_, _)
ParseDigits(s, acc) ==
  IF Len(s) = 0 \/ ~IsDigit(s[1]) THEN acc
  ELSE ParseDigits(Tail(s), acc * 10 + (s[1] - 48))

ParseInt(s) == ParseDigits(s, 0)

\* parseFloat on the numerals the model draws (an integral value, with an
\* optional fraction of zeros): the number they denote.
ParseFloat(s) == ParseDigits(s, 0)

\* JSON.stringify of a non-negative integer
RECURSIVE NumText(_)
NumText(n) == IF n < 10 THEN <<48 + n>> ELSE NumText(n \div 10) \o <<48 + (n % 10)>>

\* UTF-8 of one code point of the basic plane
Utf8(cp) ==
  IF cp < 128 THEN <<cp>>
  ELSE IF cp < 2048 THEN <<192 + (cp \div 64), 128 + (cp % 64)>>
  ELSE <<224 + (cp \div 4096), 128 + ((cp \div 64) % 64), 128 + (cp % 64)>>

\* The UTF-8 bytes of a text (by halves, to keep the evaluation shallow).
RECURSIVE Utf8Encode(_)
Utf8Encode(s) ==
  IF Len(s) = 0 THEN <<>>
  ELSE IF Len(s) = 1 THEN Utf8(s[1])
  ELSE Utf8Encode(SubSeq(s, 1, Len(s) \div 2)) \o Utf8Encode(SubSeq(s, Len(s) \div 2 + 1, Len(s)))

\* Variant: the length in characters (jsonString.length) for the length in bytes.
CharLengthMutant(s) == Len(s)
\* Buffer.byteLength(string)
ByteLength(s) == Len(Utf8Encode(s))

KeyGeometry == <<103, 101, 111, 109, 101, 116, 114, 121>>
KeyLights == <<108, 105, 103, 104, 116, 115>>
KeyHierarchy == <<104, 105, 101, 114, 97, 114, 99, 104, 121>>
KeyAnimation == <<97, 110, 105, 109, 97, 116, 105, 111, 110>>
KeyId == <<105, 100>>
KeyColor == <<99, 111, 108, 111, 114>>
KeyType == <<116, 121, 112, 101>>
KeyConeAngle == <<99, 111, 110, 101, 65, 110, 103, 108, 101>>
TextPoint == <<112, 111, 105, 110, 116>>
TextSpot == <<115, 112, 111, 116>>

Member(k, v) == Quote(k) \o <<58>> \o v


\* ------------------------------------------------------- JSON.stringify
\* One light record of ColladaLighting.lights: keys in insertion order
\* id, color, type, coneAngle (coneAngle only when set).
StringifyLight(d) ==
  <<123>>
  \o Join(<<Member(KeyId, Quote(d.id)),
            Member(KeyColor, <<91>> \o Join([i \in 1..Len(d.color) |-> NumText(d.color[i])], <<44>>) \o <<93>>),
            Member(KeyType, Quote(d.type))>>
          \o (IF IsSome(d.coneAngle) THEN <<Member(KeyConeAngle, NumText(d.coneAngle[1]))>> ELSE <<>>),
          <<44>>)
  \o <<125>>

StringifyLights(arr) ==
  <<91>> \o Join([i \in 1..Len(arr) |-> StringifyLight(arr[i])], <<44>>) \o <<93>>

\* JSON.stringify(jsonData): a key whose value is undefined is omitted; the keys
\* come in insertion order geometry, lights, hierarchy, animation.
Stringify(jd) ==
  <<123>>
  \o Join((IF IsSome(jd.geometry) THEN <<Member(KeyGeometry, jd.geometry[1])>> ELSE <<>>)
          \o (IF IsSome(jd.lights) THEN <<Member(KeyLights, StringifyLights(jd.lights[1]))>> ELSE <<>>)
          \o (IF IsSome(jd.hierarchy) THEN <<Member(KeyHierarchy, jd.hierarchy[1])>> ELSE <<>>)
          \o (IF IsSome(jd.animation) THEN <<Member(KeyAnimation, jd.animation[1])>> ELSE <<>>),
          <<44>>)
  \o <<125>>

\* ------------------------------------------------------- ColladaLighting
\* this.lights[id] = data: an object keeps its keys in insertion order, and
\* assigning an existing key keeps its place.
PutLight(lights, data) ==
  IF \E i \in 1..Len(lights) : lights[i].id = data.id
  THEN [i \in 1..Len(lights) |-> IF lights[i].id = data.id THEN data ELSE lights[i]]
  ELSE Append(lights, data)

\* One iteration of the loop of addLights (lines 214-236).
AddLight(lights, lightData) ==
  LET tc == lightData.technique_common
      point == tc.point
      spot == tc.spot
      light == IF IsSome(point) THEN point ELSE spot
  IN IF ~IsSome(light) THEN lights
     ELSE PutLight(lights,
            [id |-> lightData.id,
             color |-> [i \in 1..Len(Split(light[1].color)) |-> ParseInt(Split(light[1].color)[i])],
             type |-> IF IsSome(spot) THEN TextSpot ELSE TextPoint,
             coneAngle |-> IF IsSome(spot) THEN Some(ParseFloat(spot[1].falloff_angle[1])) ELSE None])

RECURSIVE AddLightsFrom(_, _)
AddLightsFrom(lights, lightList) ==
  IF Len(lightList) = 0 THEN lights
  ELSE AddLightsFrom(AddLight(lights, Head(lightList)), Tail(lightList))

\* addLights(lightList): lightList is undefined for a library without lights.
AddLights(lights, lightList) ==
  IF ~IsSome(lightList) THEN lights ELSE AddLightsFrom(lights, lightList[1])

\* new ColladaLighting(root, opts).lights
LightingConstructor(rt) ==
  IF IsSome(rt.library_lights)
  THEN AddLights(<<>>, rt.library_lights[1].light)
  ELSE <<>>

\* Variant: getJSON returns the array even when it is empty.
GetJSONEmptyArrayMutant(lights) == Some(lights)
\* ColladaLighting.getJSON
GetJSON(lights) == IF Len(lights) = 0 THEN None ELSE Some(lights)

\* ------------------------------------------- ColladaConvert constructor
\* Variant: an override given is assigned, true as well as false.
OverrideAssignMutant(o, derived) == IF o = "absent" THEN derived ELSE o = "true"
\* if (opts.X === false) this.config.X = false
Override(o, derived) == IF o = "false" THEN FALSE ELSE derived

OverrideKeys == {"includeGeometry", "includeAnimation", "includeHierarchy", "includeMaterial"}
Overrides == [OverrideKeys -> {"absent", "true", "false"}]

\* The value of each flag that lines 55-64 derive from the two option flags.
Derived(argsMap) ==
  LET includeBinary == ~(\E i \in 1..Len(argsMap) : argsMap[i] = SKIP_BINARY)
      isSubAnimation == \E i \in 1..Len(argsMap) : argsMap[i] = SUB_ANIM
  IN [includeBinary |-> includeBinary,
      isSubAnimation |-> isSubAnimation,
      includeGeometry |-> includeBinary /\ ~isSubAnimation,
      includeAnimation |-> includeBinary,
      includeHierarchy |-> ~isSubAnimation,
      includeMaterial |-> ~isSubAnimation]

\* this.config after lines 55-69
ResolveConfig(argsMap, ov) ==
  LET d == Derived(argsMap)
  IN [includeBinary |-> d.includeBinary,
      isSubAnimation |-> d.isSubAnimation,
      includeGeometry |-> Override(ov["includeGeometry"], d.includeGeometry),
      includeAnimation |-> Override(ov["includeAnimation"], d.includeAnimation),
      includeHierarchy |-> Override(ov["includeHierarchy"], d.includeHierarchy),
      includeMaterial |-> Override(ov["includeMaterial"], d.includeMaterial)]


\* ------------------------------------------------------------ Buffer
\* A byte of new Buffer(size) that nothing wrote yet: its content is arbitrary.
Unwritten == 0 - 1

NewBuffer(size) == [i \in 1..size |-> Unwritten]

PutBytes(buf, offset, bytes) ==
  [i \in 1..Len(buf) |->
     IF i > offset /\ i <= offset + Len(bytes) THEN bytes[i - offset] ELSE buf[i]]

UInt16BE(v) == <<v \div 256, v % 256>>

UInt32BE(v) == <<(v \div 16777216) % 256, (v \div 65536) % 256, (v \div 256) % 256, v % 256>>

\* IEEE 754 single precision, big-endian, of the float values the model draws.
FloatBE(f) ==
  CASE f = 0 -> <<0, 0, 0, 0>>
    [] f = 1 -> <<63, 128, 0, 0>>
    [] f = 2 -> <<64, 0, 0, 0>>
    [] f = 3 -> <<64, 64, 0, 0>>
    [] f = 0 - 1 -> <<191, 128, 0, 0>>

\* Variant: the write without its range checks (noAssert): the value wraps to 16 bits.
WriteUInt16BENoAssertMutant(buf, value, offset) ==
  [error |-> FALSE,
   buffer |-> IF offset + 2 > Len(buf) THEN buf ELSE PutBytes(buf, offset, UInt16BE(value % 65536))]
\* buffer.writeUInt16BE(value, offset): throws on a value outside 0..65535 and
\* on an offset outside the buffer.
WriteUInt16BE(buf, value, offset) ==
  IF value < 0 \/ value > 65535 \/ offset + 2 > Len(buf)
  THEN [error |-> TRUE, buffer |-> buf]
  ELSE [error |-> FALSE, buffer |-> PutBytes(buf, offset, UInt16BE(value))]

\* buffer.writeFloatBE(value, offset): throws on an offset outside the buffer.
WriteFloatBE(buf, value, offset) ==
  IF offset + 4 > Len(buf)
  THEN [error |-> TRUE, buffer |-> buf]
  ELSE [error |-> FALSE, buffer |-> PutBytes(buf, offset, FloatBE(value))]

\* The bytes of the longest prefix of whole characters of s that fit in room bytes.
FitChars(s, room) ==
  IF Len(Utf8Encode(s)) <= room THEN Utf8Encode(s)
  ELSE LET k == CHOOSE n \in 0..Len(s) :
                  /\ Len(Utf8Encode(SubSeq(s, 1, n))) <= room
                  /\ \A m \in (n + 1)..Len(s) : Len(Utf8Encode(SubSeq(s, 1, m))) > room
       IN Utf8Encode(SubSeq(s, 1, k))

\* buffer.write(string, offset, length): at most length bytes, never part of a character.
BufferWrite(buf, s, offset, length) ==
  LET room == IF length < Len(buf) - offset THEN length ELSE Len(buf) - offset
  IN PutBytes(buf, offset, FitChars(s, room))

\* ---------------------------------------- writeFloatArray / writeUIntArray
RECURSIVE WriteFloatArrayFrom(_, _, _, _)
WriteFloatArrayFrom(buf, start, array, i) ==
  IF i > Len(array) THEN [error |-> FALSE, buffer |-> buf]
  ELSE LET r == WriteFloatBE(buf, array[i], start + (i - 1) * 4)
       IN IF r.error THEN r ELSE WriteFloatArrayFrom(r.buffer, start, array, i + 1)

\* writeFloatArray(buffer, start, array); ret is the value returned.
writeFloatArray(buf, start, array) ==
  LET r == WriteFloatArrayFrom(buf, start, array, 1)
  IN [error |-> r.error, buffer |-> r.buffer, ret |-> Len(array) * 4]

RECURSIVE WriteUIntArrayFrom(_, _, _, _)
WriteUIntArrayFrom(buf, start, array, i) ==
  IF i > Len(array) THEN [error |-> FALSE, buffer |-> buf]
  ELSE LET r == WriteUInt16BE(buf, array[i], start + (i - 1) * 2)
       IN IF r.error THEN r ELSE WriteUIntArrayFrom(r.buffer, start, array, i + 1)

\* writeUIntArray(buffer, start, array); ret is the value returned.
writeUIntArray(buf, start, array) ==
  LET r == WriteUIntArrayFrom(buf, start, array, 1)
  IN [error |-> r.error, buffer |-> r.buffer, ret |-> Len(array) * 2]

\* --------------------------------------------- writeData, lines 150-162
\* for (i ...) { writeUIntArray(indices); writeFloatArray(vertices) }, from entry i on
RECURSIVE WriteGeometryFrom(_, _, _, _)
WriteGeometryFrom(buf, offset, geometryData, i) ==
  IF i > Len(geometryData) THEN [error |-> FALSE, buffer |-> buf, offset |-> offset]
  ELSE LET a == writeUIntArray(buf, offset, geometryData[i].indices)
       IN IF a.error THEN [error |-> TRUE, buffer |-> a.buffer, offset |-> offset]
          ELSE LET b == writeFloatArray(a.buffer, offset + a.ret, geometryData[i].vertices)
               IN IF b.error
                  THEN [error |-> TRUE, buffer |-> b.buffer, offset |-> offset + a.ret]
                  ELSE WriteGeometryFrom(b.buffer, offset + a.ret + b.ret, geometryData, i + 1)

\* for (i ...) { writeFloatArray(animationData[i]) }, from entry i on
RECURSIVE WriteAnimationsFrom(_, _, _, _)
WriteAnimationsFrom(buf, offset, animData, i) ==
  IF i > Len(animData) THEN [error |-> FALSE, buffer |-> buf, offset |-> offset]
  ELSE LET a == writeFloatArray(buf, offset, animData[i])
       IN IF a.error THEN [error |-> TRUE, buffer |-> a.buffer, offset |-> offset]
          ELSE WriteAnimationsFrom(a.buffer, offset + a.ret, animData, i + 1)

\* The body of if (this.config.includeBinary) { ... } of lines 150-162.
WriteBinary(buf, offset, geometryData, animData) ==
  LET g == WriteGeometryFrom(buf, offset, geometryData, 1)
  IN IF g.error THEN g ELSE WriteAnimationsFrom(g.buffer, g.offset, animData, 1)


\* ------------------------------------- producers of ./includes (contract)
RECURSIVE GeometryByteSize(_)
GeometryByteSize(geometryData) ==
  IF Len(geometryData) = 0 THEN 0
  ELSE Len(Head(geometryData).indices) * 2 + Len(Head(geometryData).vertices) * 4
       + GeometryByteSize(Tail(geometryData))

\* new ColladaGeometry(root, ...): segments in collection order; byteSize is the
\* byte length of the arrays; prepared counts the prepareForExport calls.
GeometryProducer(rt) ==
  [geometryData |-> rt.geometry, byteSize |-> GeometryByteSize(rt.geometry), prepared |-> 0]

\* colladaGeometry.prepareForExport()
PrepareForExport(g) == [g EXCEPT !.prepared = @ + 1]

\* colladaGeometry.getJSON(): the summary, here the array of the entries' index counts.
GeometryGetJSON(g) ==
  Some(<<91>> \o Join([i \in 1..Len(g.geometryData) |-> NumText(Len(g.geometryData[i].indices))], <<44>>) \o <<93>>)

\* The float sequences of the animations, by name.
AnimFloats(name) == IF name = "walk" THEN <<1, 2>> ELSE <<-1>>

RECURSIVE AnimationByteSize(_)
AnimationByteSize(order) ==
  IF Len(order) = 0 THEN 0 ELSE Len(AnimFloats(Head(order))) * 4 + AnimationByteSize(Tail(order))

\* new ColladaAnimation(root, opts)
AnimationProducer(rt) ==
  [hasAnimation |-> Len(rt.animationOrder) > 0,
   animationOrder |-> rt.animationOrder,
   byteSize |-> AnimationByteSize(rt.animationOrder)]

\* colladaAnimation.getAnimationData(animName)
GetAnimationData(a, animName) == AnimFloats(animName)

\* colladaAnimation.getJSON(idToNameMap): the summary, here the number of animations.
AnimationGetJSON(a) == Some(<<91>> \o NumText(Len(a.animationOrder)) \o <<93>>)

\* ----------------------------------------------------------- the inputs
Tokens == {SKIP_BINARY, SUB_ANIM, "-foo", "toString", "__proto__"}

SeqsUpTo(S, n) == UNION {[1..k -> S] : k \in 0..n}

\* args.slice(1).reduce((result, val) => (result[val] = true, result), {}): the
\* keys in insertion order, each once; assigning __proto__ a boolean adds no key.
RECURSIVE ArgsToMap(_, _)
ArgsToMap(args, result) ==
  IF Len(args) = 0 THEN result
  ELSE IF Head(args) = "__proto__" \/ \E i \in 1..Len(result) : result[i] = Head(args)
  THEN ArgsToMap(Tail(args), result)
  ELSE ArgsToMap(Tail(args), Append(result, Head(args)))

ColorText == <<50, 53, 53, 32, 48, 32, 54, 52>>
FalloffText == <<52, 53, 46, 48>>
LightIds == {<<76, 49>>, <<76, 233>>}
Techniques ==
  {[point |-> Some([color |-> ColorText, falloff_angle |-> None]), spot |-> None],
   [point |-> None, spot |-> Some([color |-> ColorText, falloff_angle |-> Some(FalloffText)])],
   [point |-> None, spot |-> None]}
LightEntries == [id : LightIds, technique_common : Techniques]
LightLibraries ==
  {None, Some([light |-> None])}
  \cup {Some([light |-> Some(l)]) : l \in SeqsUpTo(LightEntries, MaxLights) \ {<<>>}}

SegChoices ==
  {[indices |-> <<1, 0>>, vertices |-> <<1>>],
   [indices |-> <<65535>>, vertices |-> <<>>],
   [indices |-> <<65536>>, vertices |-> <<2>>]}
Geometries == SeqsUpTo(SegChoices, MaxSegs)

AnimNames == {"walk", "idle"}
\* animationOrder: any names, each once, in any order.
AnimOrders ==
  {o \in SeqsUpTo(AnimNames, Cardinality(AnimNames)) :
     \A i, j \in 1..Len(o) : i # j => o[i] # o[j]}

HierarchyText == <<91, 34, 110, 233, 34, 93>>

\* The scenes a parse yields: every light library beside one geometry and one
\* animation, every geometry and animation order with and without a light, and
\* scenes without a hierarchy.
Scenes ==
  [library_lights : LightLibraries,
   geometry : {<<[indices |-> <<1, 0>>, vertices |-> <<1>>]>>},
   animationOrder : {<<"walk">>},
   hierarchy : {Some(HierarchyText)}]
  \cup
  [library_lights : {None,
                     Some([light |-> Some(<<[id |-> <<76, 233>>,
                                             technique_common |->
                                               [point |-> None,
                                                spot |-> Some([color |-> ColorText,
                                                               falloff_angle |-> Some(FalloffText)])]]>>)])},
   geometry : Geometries,
   animationOrder : AnimOrders,
   hierarchy : {Some(HierarchyText)}]
  \cup
  [library_lights : {None},
   geometry : {<<>>, <<[indices |-> <<65535>>, vertices |-> <<>>]>>},
   animationOrder : {<<>>, <<"idle">>},
   hierarchy : {None}]

NoScene ==
  [library_lights |-> None, geometry |-> <<>>, animationOrder |-> <<>>, hierarchy |-> None]


\* ---------------------------------------------------------------- state
VARIABLES
  pc,               \* position of the run
  otherArgsMap,     \* keys of otherArgsMap (line 31), in insertion order
  error,            \* the exception that ended the run, if any
  root,             \* the parse result handed to the constructor
  config,           \* this.config
  lights,           \* colladaLighting.lights, in insertion order
  colladaGeometry,  \* the geometry producer
  colladaAnimation, \* the animation producer
  hierarchy,        \* colladaHierarchy.hierarchy
  calls,            \* the producer members writeData used, in order
  jsonData, animationData, jsonString, jsonLength, buffer, currentOffset,
  writeStream       \* the output stream: created, chunks written, ended

vars ==
  <<pc, otherArgsMap, error, root, config, lights, colladaGeometry, colladaAnimation,
    hierarchy, calls, jsonData, animationData, jsonString, jsonLength, buffer,
    currentOffset, writeStream>>

NoError == [name |-> "none", key |-> ""]

Init ==
  /\ pc = "start"
  /\ \E args \in SeqsUpTo(Tokens, MaxArgs) : otherArgsMap = ArgsToMap(args, <<>>)
  /\ error = NoError
  /\ root = NoScene
  /\ config = [includeBinary |-> FALSE, isSubAnimation |-> FALSE, includeGeometry |-> FALSE,
               includeAnimation |-> FALSE, includeHierarchy |-> FALSE, includeMaterial |-> FALSE]
  /\ lights = <<>>
  /\ colladaGeometry = GeometryProducer(NoScene)
  /\ colladaAnimation = AnimationProducer(NoScene)
  /\ hierarchy = None
  /\ calls = <<>>
  /\ jsonData = [geometry |-> None, lights |-> None, hierarchy |-> None, animation |-> None]
  /\ animationData = <<>>
  /\ jsonString = <<>>
  /\ jsonLength = 0
  /\ buffer = <<>>
  /\ currentOffset = 0
  /\ writeStream = [created |-> FALSE, chunks |-> <<>>, ended |-> FALSE]

\* Lines 38-42: the first key (in insertion order) that PARAMS does not answer throws.
CheckParams ==
  /\ pc = "start"
  /\ LET bad == {i \in 1..Len(otherArgsMap) : ~ParamsLookup(otherArgsMap[i])}
     IN IF bad # {}
        THEN /\ pc' = "failed"
             /\ error' = [name |-> "Unknown param",
                          key |-> otherArgsMap[CHOOSE i \in bad : \A j \in bad : i <= j]]
        ELSE /\ pc' = "checked"
             /\ error' = error
  /\ UNCHANGED <<otherArgsMap, root, config, lights, colladaGeometry, colladaAnimation,
                 hierarchy, calls, jsonData, animationData, jsonString, jsonLength, buffer,
                 currentOffset, writeStream>>

\* Lines 184-188: parser.parseString(data, callback) hands the callback a scene.
ParseString ==
  /\ pc = "checked"
  /\ \E scene \in Scenes : root' = scene
  /\ pc' = "parsed"
  /\ UNCHANGED <<otherArgsMap, error, config, lights, colladaGeometry, colladaAnimation,
                 hierarchy, calls, jsonData, animationData, jsonString, jsonLength, buffer,
                 currentOffset, writeStream>>

\* Lines 48-100: new ColladaConvert(result, opts); opts holds the option flags
\* and, for each explicit override, nothing, true or false.
Constructor ==
  /\ pc = "parsed"
  /\ \E ov \in Overrides : config' = ResolveConfig(otherArgsMap, ov)
  /\ lights' = LightingConstructor(root)
  /\ colladaGeometry' = GeometryProducer(root)
  /\ colladaAnimation' = AnimationProducer(root)
  /\ hierarchy' = root.hierarchy
  /\ pc' = "constructed"
  /\ UNCHANGED <<otherArgsMap, error, root, calls, jsonData, animationData, jsonString,
                 jsonLength, buffer, currentOffset, writeStream>>

\* Variant: the animations collected in the order of the mapping (idle, walk),
\* not in animationOrder.
CollectAnimationDataMappingOrderMutant(cfg, a) ==
  IF cfg.includeAnimation /\ a.hasAnimation
  THEN [i \in 1..Len(a.animationOrder) |->
          GetAnimationData(a, IF Len(a.animationOrder) = 1 THEN a.animationOrder[1]
                              ELSE IF i = 1 THEN "idle" ELSE "walk")]
  ELSE <<>>
\* Lines 122-130: animationData
CollectAnimationData(cfg, a) ==
  IF cfg.includeAnimation /\ a.hasAnimation
  THEN [i \in 1..Len(a.animationOrder) |-> GetAnimationData(a, a.animationOrder[i])]
  ELSE <<>>

\* Lines 109-130: jsonData
CollectJsonData(cfg, g, ls, h, a) ==
  [geometry |-> IF cfg.includeGeometry THEN GeometryGetJSON(g) ELSE None,
   lights |-> GetJSON(ls),
   hierarchy |-> IF cfg.includeHierarchy THEN h ELSE None,
   animation |-> IF cfg.includeAnimation /\ a.hasAnimation THEN AnimationGetJSON(a) ELSE None]

\* The producer members lines 111-130 use, in order.
CollectCalls(cfg, a) ==
  (IF cfg.includeGeometry THEN <<"geometry.prepareForExport", "geometry.getJSON">> ELSE <<>>)
  \o <<"lighting.getJSON">>
  \o (IF cfg.includeHierarchy THEN <<"hierarchy.hierarchy">> ELSE <<>>)
  \o (IF cfg.includeAnimation THEN <<"animation.hasAnimation">> ELSE <<>>)
  \o (IF cfg.includeAnimation /\ a.hasAnimation
      THEN <<"animation.getJSON">>
           \o [i \in 1..Len(a.animationOrder) |-> "animation.getAnimationData"]
      ELSE <<>>)

\* writeData, lines 107-130: open the stream, collect the summaries.
WriteDataCollect ==
  /\ pc = "constructed"
  /\ writeStream' = [writeStream EXCEPT !.created = TRUE]
  /\ colladaGeometry' =
       IF config.includeGeometry THEN PrepareForExport(colladaGeometry) ELSE colladaGeometry
  /\ jsonData' = CollectJsonData(config, colladaGeometry', lights, hierarchy, colladaAnimation)
  /\ animationData' = CollectAnimationData(config, colladaAnimation)
  /\ calls' = calls \o CollectCalls(config, colladaAnimation)
  /\ pc' = "collected"
  /\ UNCHANGED <<otherArgsMap, error, root, config, lights, colladaAnimation, hierarchy,
                 jsonString, jsonLength, buffer, currentOffset>>

\* Variant: the byte sizes added whatever includeBinary says.
BufferSizeAlwaysBinaryMutant(cfg, len, g, a) == 4 + len + g.byteSize + a.byteSize
\* Lines 136-139: bufferSize
BufferSize(cfg, len, g, a) ==
  4 + len + (IF cfg.includeBinary THEN g.byteSize + a.byteSize ELSE 0)

\* writeData, lines 134-148: size the buffer, write the length prefix and the header.
WriteDataHeader ==
  /\ pc = "collected"
  /\ jsonString' = Stringify(jsonData)
  /\ jsonLength' = ByteLength(jsonString')
  /\ buffer' = BufferWrite(
                 PutBytes(NewBuffer(BufferSize(config, jsonLength', colladaGeometry, colladaAnimation)),
                          0, UInt32BE(jsonLength')),
                 jsonString', 4, jsonLength')
  /\ currentOffset' = 4 + jsonLength'
  /\ calls' = calls \o (IF config.includeBinary
                        THEN <<"geometry.byteSize", "animation.byteSize">> ELSE <<>>)
  /\ pc' = "headerWritten"
  /\ UNCHANGED <<otherArgsMap, error, root, config, lights, colladaGeometry,
                 colladaAnimation, hierarchy, jsonData, animationData, writeStream>>

\* writeData, lines 150-162: the binary payload; a buffer write that throws (a value
\* or an offset out of range) ends the run.
WriteDataBinary ==
  /\ pc = "headerWritten"
  /\ IF config.includeBinary
     THEN LET r == WriteBinary(buffer, currentOffset, colladaGeometry.geometryData, animationData)
          IN /\ buffer' = r.buffer
             /\ currentOffset' = r.offset
             /\ calls' = Append(calls, "geometry.geometryData")
             /\ IF r.error
                THEN pc' = "failed" /\ error' = [name |-> "OutOfRange", key |-> ""]
                ELSE pc' = "binaryWritten" /\ error' = error
     ELSE /\ pc' = "binaryWritten"
          /\ UNCHANGED <<buffer, currentOffset, calls, error>>
  /\ UNCHANGED <<otherArgsMap, root, config, lights, colladaGeometry, colladaAnimation,
                 hierarchy, jsonData, animationData, jsonString, jsonLength, writeStream>>

\* writeData, lines 163-164: writeStream.write(buffer); writeStream.end()
WriteDataFlush ==
  /\ pc = "binaryWritten"
  /\ writeStream' = [writeStream EXCEPT !.chunks = Append(@, buffer), !.ended = TRUE]
  /\ pc' = "done"
  /\ UNCHANGED <<otherArgsMap, error, root, config, lights, colladaGeometry,
                 colladaAnimation, hierarchy, calls, jsonData, animationData, jsonString,
                 jsonLength, buffer, currentOffset>>

Next ==
  \/ CheckParams
  \/ ParseString
  \/ Constructor
  \/ WriteDataCollect
  \/ WriteDataHeader
  \/ WriteDataBinary
  \/ WriteDataFlush

Spec == Init /\ [][Next]_vars


\* ------------------------------------------------------ reading the state
\* The instance exists: the constructor returned.
Constructed ==
  pc \in {"constructed", "collected", "headerWritten", "binaryWritten", "done"}
  \/ (pc = "failed" /\ error.name = "OutOfRange")

\* writeData allocated the buffer and wrote the length prefix and the header.
HeaderDone ==
  pc \in {"headerWritten", "binaryWritten", "done"}
  \/ (pc = "failed" /\ error.name = "OutOfRange")

\* writeData left the binary block without an exception.
BinaryDone == pc \in {"binaryWritten", "done"}

HasFlag(flag) == \E i \in 1..Len(otherArgsMap) : otherArgsMap[i] = flag

\* Big-endian value of a byte sequence.
RECURSIVE DecodeBE(_, _)
DecodeBE(bytes, acc) ==
  IF Len(bytes) = 0 THEN acc ELSE DecodeBE(Tail(bytes), acc * 256 + Head(bytes))

\* Whether the JSON text s holds the member key k ("k": ...).
HasKey(s, k) ==
  LET pat == Quote(k) \o <<58>>
  IN \E i \in 1..Len(s) : i + Len(pat) - 1 <= Len(s) /\ SubSeq(s, i, i + Len(pat) - 1) = pat

\* The bytes writeData is to produce for a geometry and for the animations.
SegmentBytes(seg) ==
  Concat([i \in 1..Len(seg.indices) |-> UInt16BE(seg.indices[i])])
  \o Concat([i \in 1..Len(seg.vertices) |-> FloatBE(seg.vertices[i])])

GeometryBytes(geometryData) ==
  Concat([i \in 1..Len(geometryData) |-> SegmentBytes(geometryData[i])])

AnimationBytes(order) ==
  Concat([i \in 1..Len(order) |->
            Concat([j \in 1..Len(AnimFloats(order[i])) |-> FloatBE(AnimFloats(order[i])[j])])])

PayloadStart == 4 + Len(Utf8Encode(jsonString))

IndexOverflow ==
  \E i \in 1..Len(colladaGeometry.geometryData) :
    \E j \in 1..Len(colladaGeometry.geometryData[i].indices) :
      colladaGeometry.geometryData[i].indices[j] > 65535

Count(seq, x) == Cardinality({i \in 1..Len(seq) : seq[i] = x})

\* ----------------------------------------------------------------- claims

C2_ExactSize ==
  BinaryDone =>
    /\ Len(buffer) = 4 + Len(Utf8Encode(jsonString))
                     + (IF config.includeBinary
                        THEN GeometryByteSize(colladaGeometry.geometryData)
                             + AnimationByteSize(colladaAnimation.animationOrder)
                        ELSE 0)
    /\ currentOffset = Len(buffer)
    /\ \A i \in 1..Len(buffer) : buffer[i] # Unwritten

\* C3: includeGeometry and includeAnimation imply includeBinary, isSubAnimation
\* implies includeGeometry, includeHierarchy and includeMaterial are false, and
\* no flag is true when the value derived from the two option flags is false.
C3_ConfigInvariant ==
  Constructed =>
    /\ config.includeBinary = ~HasFlag(SKIP_BINARY)
    /\ config.isSubAnimation = HasFlag(SUB_ANIM)
    /\ config.includeGeometry => config.includeBinary
    /\ config.includeAnimation => config.includeBinary
    /\ config.isSubAnimation =>
         ~config.includeGeometry /\ ~config.includeHierarchy /\ ~config.includeMaterial
    /\ config.includeGeometry => ~HasFlag(SKIP_BINARY) /\ ~HasFlag(SUB_ANIM)
    /\ config.includeAnimation => ~HasFlag(SKIP_BINARY)
    /\ config.includeHierarchy => ~HasFlag(SUB_ANIM)
    /\ config.includeMaterial => ~HasFlag(SUB_ANIM)

\* C3 witness: a configuration built from sub-anim that keeps the animation.
C3_Witness ==
  /\ pc = "constructed"
  /\ config.isSubAnimation
  /\ config.includeAnimation
  /\ config.includeBinary

\* C4: with sub-anim the header has no geometry, hierarchy or material key and
\* the bytes written after the header are the animation float arrays only.
C4_SubAnimOnlyAnimation ==
  (pc = "done" /\ HasFlag(SUB_ANIM)) =>
    /\ ~HasKey(jsonString, KeyGeometry)
    /\ ~HasKey(jsonString, KeyHierarchy)
    /\ SubSeq(buffer, PayloadStart + 1, currentOffset)
         = AnimationBytes(IF config.includeAnimation
                          THEN colladaAnimation.animationOrder ELSE <<>>)

\* C5: with skip-binary the output is the 4-byte length prefix and the header
\* only, the header has no geometry and no animation key, and no member of the
\* geometry or animation producer is used.
C5_SkipBinary ==
  (Constructed /\ HasFlag(SKIP_BINARY)) =>
    /\ \A i \in 1..Len(calls) :
         calls[i] \in {"lighting.getJSON", "hierarchy.hierarchy"}
    /\ colladaGeometry.prepared = 0
    /\ HeaderDone =>
         /\ Len(buffer) = 4 + Len(Utf8Encode(jsonString))
         /\ buffer = UInt32BE(Len(Utf8Encode(jsonString))) \o Utf8Encode(jsonString)
         /\ ~HasKey(jsonString, KeyGeometry)
         /\ ~HasKey(jsonString, KeyAnimation)
    /\ pc # "failed"
    /\ pc = "done" => writeStream.chunks = <<buffer>>

\* C5 witness: a skip-binary run that flushed although both producers hold data.
C5_Witness ==
  /\ pc = "done"
  /\ HasFlag(SKIP_BINARY)
  /\ Len(colladaGeometry.geometryData) > 0
  /\ colladaAnimation.hasAnimation
  /\ colladaAnimation.byteSize > 0

C7_UnknownOptionFailsFast ==
  /\ pc \notin {"start", "checked", "failed"} =>
       \A i \in 1..Len(otherArgsMap) : otherArgsMap[i] \in PARAMS
  /\ (pc = "failed" /\ error.name = "Unknown param") =>
       /\ error.key \notin PARAMS
       /\ HasFlag(error.key)
       /\ root = NoScene

\* The light entries of the scene.
LightList ==
  IF IsSome(root.library_lights) /\ IsSome(root.library_lights[1].light)
  THEN root.library_lights[1].light[1] ELSE <<>>

Supported(e) == IsSome(e.technique_common.point) \/ IsSome(e.technique_common.spot)

C8_WitnessNoKey ==
  /\ pc = "done"
  /\ Len(LightList) > 0
  /\ Len(lights) = 0
  /\ ~HasKey(jsonString, KeyLights)

C10_PrepareBeforeRead ==
  /\ Count(calls, "geometry.prepareForExport") <= 1
  /\ (config.includeGeometry /\ Constructed /\ pc # "constructed") =>
       Count(calls, "geometry.prepareForExport") = 1
  /\ \A i \in 1..Len(calls) :
       calls[i] \in {"geometry.byteSize", "geometry.getJSON", "geometry.geometryData"} =>
         \E j \in 1..(i - 1) : calls[j] = "geometry.prepareForExport"

====
